---- MODULE Spec2Model ----
(***************************************************************************)
(* The snippet builder of builder.py: the catalog SNIPPETS, the menu       *)
(* renderer print_menu, the dotted-path resolver get_nested and the        *)
(* session loop of main.                                                   *)
(*                                                                         *)
(* A Python str is modelled as a sequence of one-character strings, so     *)
(* that split, strip, lower, isdigit, int and str are computed character   *)
(* by character.  The module is written in ASCII: the en dash of the       *)
(* category names is written "-", the box-drawing characters of the two    *)
(* rules are written "=" and "-", and the arrow of the install hint "->".  *)
(***************************************************************************)
EXTENDS Integers, Sequences, FiniteSets

VARIABLES
    pc,       \* where the process is: at one of its three input() calls
              \* ("menu", "copy", "another") or ended ("returned", "bye",
              \* "traceback")
    host,     \* what import pyperclip and pyperclip.copy do on this host
    last,     \* the step taken last
    line,     \* the line the last input() returned
    choice,   \* the local choice of main
    snippet,  \* the local snippet (and code) of main
    raised,   \* the exception raised in the last step ("none": none)
    out,      \* the arguments of the print calls of the last step, in order
    copy      \* the try of the last step and its call of pyperclip.copy

vars == <<pc, host, last, line, choice, snippet, raised, out, copy>>

-----------------------------------------------------------------------------
(* Bounds of the model. *)

\* Every line over Alphabet of at most MaxLen characters is an input line.
MaxLen == 2

-----------------------------------------------------------------------------
(* Python str operations. *)

DigitChars == <<"0","1","2","3","4","5","6","7","8","9">>

UpperChars ==
    <<"A","B","C","D","E","F","G","H","I","J","K","L","M",
      "N","O","P","Q","R","S","T","U","V","W","X","Y","Z">>

LowerChars ==
    <<"a","b","c","d","e","f","g","h","i","j","k","l","m",
      "n","o","p","q","r","s","t","u","v","w","x","y","z">>

Whitespace == {" ", "\t", "\n", "\r", "\f"}

Range(s) == {s[i] : i \in 1..Len(s)}

\* str.isdigit(): a non-empty string of digits.
isdigit(s) == Len(s) > 0 /\ \A i \in 1..Len(s) : s[i] \in Range(DigitChars)

DigitVal(c) == CHOOSE v \in 0..9 : DigitChars[v + 1] = c

\* int(s) of a string of digits (Python integers do not overflow).
RECURSIVE int(_)
int(s) ==
    IF Len(s) = 0 THEN 0
    ELSE 10 * int(SubSeq(s, 1, Len(s) - 1)) + DigitVal(s[Len(s)])

\* str(n), the decimal numeral an f-string writes for n >= 0.
RECURSIVE str(_)
str(n) ==
    IF n < 10 THEN <<DigitChars[n + 1]>>
    ELSE str(n \div 10) \o <<DigitChars[(n % 10) + 1]>>

\* str.strip(): leading and trailing whitespace removed.
RECURSIVE lstrip(_)
lstrip(s) ==
    IF Len(s) > 0 /\ s[1] \in Whitespace THEN lstrip(Tail(s)) ELSE s

RECURSIVE rstrip(_)
rstrip(s) ==
    IF Len(s) > 0 /\ s[Len(s)] \in Whitespace
    THEN rstrip(SubSeq(s, 1, Len(s) - 1)) ELSE s

strip(s) == rstrip(lstrip(s))

LowerChar(c) ==
    IF c \in Range(UpperChars)
    THEN LowerChars[CHOOSE i \in 1..26 : UpperChars[i] = c]
    ELSE c

\* A comparison that forgets .lower().
lowerOmitted(s) == s

\* str.lower()
lower(s) == [i \in 1..Len(s) |-> LowerChar(s[i])]

\* str.split("."): the pieces between the dots; never an empty list.
RECURSIVE split(_)
split(s) ==
    IF \A i \in 1..Len(s) : s[i] # "."
    THEN <<s>>
    ELSE LET d == CHOOSE i \in 1..Len(s) :
                      s[i] = "." /\ \A j \in 1..(i - 1) : s[j] # "."
         IN  <<SubSeq(s, 1, d - 1)>> \o split(SubSeq(s, d + 1, Len(s)))

\* '  ' * level and the two rules.
RECURSIVE Repeat(_, _)
Repeat(s, n) == IF n <= 0 THEN <<>> ELSE s \o Repeat(s, n - 1)

-----------------------------------------------------------------------------
(* The catalog SNIPPETS.  The snippet texts are abbreviated to their first *)
(* lines; each keeps the trailing newline that dedent leaves.              *)

Name1 ==
    <<"C","o","m","m","a","n","d"," ","L","i","n","e"," ","A","r","g","u","m","e","n","t","s">>

Name1_1 ==
    <<"b","a","s","i","c"," ","a","r","g","p","a","r","s","e"," ","u","s","a","g","e">>

Name1_2 ==
    <<"a","r","g","p","a","r","s","e"," ","w","i","t","h"," ","s","u","b","c","o","m","m","a",
    "n","d","s">>

Name2 ==
    <<"F","l","a","s","k"," ","-"," ","B","a","s","i","c"," ","S","e","t","u","p">>

Name2_1 ==
    <<"m","i","n","i","m","a","l"," ","F","l","a","s","k"," ","a","p","p","l","i","c","a","t",
    "i","o","n">>

Name2_2 ==
    <<"F","l","a","s","k"," ","w","i","t","h"," ","t","e","m","p","l","a","t","e","s"," ","(",
    "r","e","c","o","m","m","e","n","d","e","d",")">>

Name3 ==
    <<"F","l","a","s","k"," ","-"," ","S","t","a","t","i","c"," ","F","i","l","e","s">>

Name3_1 ==
    <<"s","e","r","v","e"," ","s","t","a","t","i","c"," ","f","i","l","e","s"," ","(","c","s",
    "s","/","j","s","/","i","m","a","g","e","s",")">>

Name4 ==
    <<"F","l","a","s","k"," ","-"," ","F","i","l","e"," ","U","p","l","o","a","d">>

Name4_1 ==
    <<"b","a","s","i","c"," ","f","i","l","e"," ","u","p","l","o","a","d"," ","e","n","d","p",
    "o","i","n","t">>

Name5 ==
    <<"F","l","a","s","k"," ","-"," ","D","o","w","n","l","o","a","d"," ","/"," ","S","e","r",
    "v","e"," ","U","p","l","o","a","d","e","d"," ","F","i","l","e","s">>

Name5_1 ==
    <<"d","o","w","n","l","o","a","d"," ","u","p","l","o","a","d","e","d"," ","f","i","l","e">>

Name6 ==
    <<"H","T","T","P"," ","/"," ","R","e","q","u","e","s","t","s">>

Name7 ==
    <<"S","m","a","l","l"," ","W","e","b"," ","S","e","r","v","e","r","s">>

Name8 ==
    <<"F","i","l","e"," ","&"," ","D","a","t","a"," ","H","a","n","d","l","i","n","g">>

Name9 ==
    <<"C","o","n","c","u","r","r","e","n","c","y"," ","B","a","s","i","c","s">>

Text1_1 ==
    <<"i","m","p","o","r","t"," ","a","r","g","p","a","r","s","e","\n">>

Text1_2 ==
    <<"i","m","p","o","r","t"," ","a","r","g","p","a","r","s","e","\n","\n","d","e","f"," ","p",
    "r","o","c","e","s","s","(","a","r","g","s",")",":","\n">>

Text2_1 ==
    <<"f","r","o","m"," ","f","l","a","s","k"," ","i","m","p","o","r","t"," ","F","l","a","s",
    "k","\n">>

Text2_2 ==
    <<"#"," ","F","i","l","e",":"," ","a","p","p",".","p","y","\n">>

Text3_1 ==
    <<"#"," ","P","l","a","c","e"," ","f","i","l","e","s"," ","i","n"," ","t","h","e"," ","\"",
    "s","t","a","t","i","c","\""," ","f","o","l","d","e","r"," ","n","e","x","t"," ","t","o",
    " ","a","p","p",".","p","y","\n">>

Text4_1 ==
    <<"f","r","o","m"," ","f","l","a","s","k"," ","i","m","p","o","r","t"," ","F","l","a","s",
    "k",","," ","r","e","q","u","e","s","t",","," ","r","e","d","i","r","e","c","t",","," ","u",
    "r","l","_","f","o","r","\n">>

Text5_1 ==
    <<"f","r","o","m"," ","f","l","a","s","k"," ","i","m","p","o","r","t"," ","F","l","a","s",
    "k",","," ","s","e","n","d","_","f","r","o","m","_","d","i","r","e","c","t","o","r","y",",",
    " ","a","b","o","r","t","\n">>

Banner ==
    <<"C","l","e","a","n"," ","S","n","i","p","p","e","t"," ","B","u","i","l","d","e","r"," ",
    " ","(","q"," ","="," ","q","u","i","t",")","\n">>

InvalidMsg ==
    <<"I","n","v","a","l","i","d"," ","s","e","l","e","c","t","i","o","n",".","\n">>

CopiedMsg ==
    <<"(","c","o","p","i","e","d",")","\n">>

InstallMsg ==
    <<"(","i","n","s","t","a","l","l"," ","p","y","p","e","r","c","l","i","p"," ","-",">"," ",
    "p","i","p"," ","i","n","s","t","a","l","l"," ","p","y","p","e","r","c","l","i","p",")",
    "\n">>

ByeMsg ==
    <<"\n","B","y","e",".">>

\* A dict of the catalog (isdict) or a snippet text; id is the object's
\* identity, which tells two equal values (the empty categories) apart.
DictNode(i, kvs) == [id |-> i, isdict |-> TRUE, items |-> kvs, text |-> <<>>]

StrNode(i, t) == [id |-> i, isdict |-> FALSE, items |-> <<>>, text |-> t]

Item(name, node) == [k |-> name, v |-> node]

SNIPPETS ==
    DictNode(0, <<
        Item(Name1, DictNode(1, <<Item(Name1_1, StrNode(11, Text1_1)),
                                  Item(Name1_2, StrNode(12, Text1_2))>>)),
        Item(Name2, DictNode(2, <<Item(Name2_1, StrNode(21, Text2_1)),
                                  Item(Name2_2, StrNode(22, Text2_2))>>)),
        Item(Name3, DictNode(3, <<Item(Name3_1, StrNode(31, Text3_1))>>)),
        Item(Name4, DictNode(4, <<Item(Name4_1, StrNode(41, Text4_1))>>)),
        Item(Name5, DictNode(5, <<Item(Name5_1, StrNode(51, Text5_1))>>)),
        Item(Name6, DictNode(6, <<>>)),
        Item(Name7, DictNode(7, <<>>)),
        Item(Name8, DictNode(8, <<>>)),
        Item(Name9, DictNode(9, <<>>))
    >>)

\* No object: the value of a local that is not bound.
NoNode == [id |-> -1, isdict |-> FALSE, items |-> <<>>, text |-> <<>>]

-----------------------------------------------------------------------------
(* get_nested *)

Return(node) == [ok |-> TRUE, node |-> node, err |-> "none"]

Raise(e) == [ok |-> FALSE, node |-> NoNode, err |-> e]

\* list(current.values())
values(current) == [i \in 1..Len(current.items) |-> current.items[i].v]

\* l[idx] of a Python list: a negative idx counts from the end, and an
\* idx outside -len..len-1 raises IndexError.
ListIndex(l, idx) ==
    IF idx >= Len(l) \/ idx < 0 - Len(l) THEN Raise("IndexError")
    ELSE IF idx < 0 THEN Return(l[Len(l) + idx + 1])
    ELSE Return(l[idx + 1])

\* current[part] of a dict: the value of key part, or KeyError.
GetItem(current, part) ==
    IF \E i \in 1..Len(current.items) : current.items[i].k = part
    THEN Return(current.items[CHOOSE i \in 1..Len(current.items) :
                                  current.items[i].k = part].v)
    ELSE Raise("KeyError")

\* The position number taken for the index, without the - 1.
IndexNotShifted(part) == int(part)

\* The index of a numeric part.
Index(part) == int(part) - 1

\* A loop body that stays on a str instead of failing on it.
DescendStaysOnLeaf(current, part) ==
    IF ~current.isdict THEN Return(current)
    ELSE IF isdigit(part) THEN ListIndex(values(current), Index(part))
    ELSE GetItem(current, part)

\* The body of the loop of get_nested for one part.  A str has no
\* values() (AttributeError) and takes no str subscript (TypeError).
Descend(current, part) ==
    IF isdigit(part)
    THEN IF current.isdict
         THEN ListIndex(values(current), Index(part))
         ELSE Raise("AttributeError")
    ELSE IF current.isdict
         THEN GetItem(current, part)
         ELSE Raise("TypeError")

RECURSIVE Walk(_, _)
Walk(current, parts) ==
    IF parts = <<>> THEN Return(current)
    ELSE LET r == Descend(current, Head(parts))
         IN  IF r.ok THEN Walk(r.node, Tail(parts)) ELSE r

get_nested(d, path) == Walk(d, split(path))

-----------------------------------------------------------------------------
(* print_menu: the sequence of the lines it prints. *)

Indent(level) == Repeat(<<" ", " ">>, level)

\* enumerate without its start of 1.
NumberFromZero(i) == str(i - 1)

\* The number print_menu writes for the child at position i (1-based).
Number(i) == str(i)

\* A line with the slash whatever the child is.
MenuLineAlwaysSlash(level, prefix, i, k, v) ==
    Indent(level) \o prefix \o Number(i) \o <<")", " ">> \o k \o <<"/">>

\* The line of child i, named k, with value v.
MenuLine(level, prefix, i, k, v) ==
    Indent(level) \o prefix \o Number(i) \o <<")", " ">> \o k
        \o (IF v.isdict THEN <<"/">> ELSE <<>>)

\* Whether print_menu recurses into value v.
Recurses(v) == v.isdict

RECURSIVE MenuFrom(_, _, _, _)
MenuFrom(d, level, prefix, i) ==
    IF i > Len(d.items) THEN <<>>
    ELSE LET k == d.items[i].k
             v == d.items[i].v
         IN  <<MenuLine(level, prefix, i, k, v)>>
             \o (IF Recurses(v)
                 THEN MenuFrom(v, level + 1, prefix \o Number(i) \o <<".">>, 1)
                 ELSE <<>>)
             \o MenuFrom(d, level, prefix, i + 1)

print_menu(d, level, prefix) == MenuFrom(d, level, prefix, 1)

-----------------------------------------------------------------------------
(* The lines a user may type. *)

Alphabet == {"0", "1", ".", "q", " "}

ShortLines == UNION {[1..n -> Alphabet] : n \in 0..MaxLen}

\* The nodes of the catalog, each by the positions that lead to it.
RECURSIVE PositionsOf(_)
PositionsOf(node) ==
    {<<>>} \cup UNION {{<<i>> \o p : p \in PositionsOf(node.items[i].v)} :
                           i \in 1..Len(node.items)}

Positions == PositionsOf(SNIPPETS)

RECURSIVE NodeAt(_, _)
NodeAt(node, p) ==
    IF p = <<>> THEN node ELSE NodeAt(node.items[Head(p)].v, Tail(p))

\* The dotted path of position numbers, and of display names, of a node.
RECURSIVE Label(_)
Label(p) ==
    IF Len(p) = 0 THEN <<>>
    ELSE IF Len(p) = 1 THEN str(p[1])
    ELSE Label(SubSeq(p, 1, Len(p) - 1)) \o <<".">> \o str(p[Len(p)])

RECURSIVE NamesOf(_, _)
NamesOf(node, p) ==
    IF Len(p) = 0 THEN <<>>
    ELSE IF Len(p) = 1 THEN node.items[p[1]].k
    ELSE node.items[p[1]].k \o <<".">> \o NamesOf(node.items[p[1]].v, Tail(p))

NamePath(p) == NamesOf(SNIPPETS, p)

ChildCount(p) == Len(NodeAt(SNIPPETS, p).items)

\* One more segment after the path of a node (after nothing, for the root).
Extend(path, seg) == IF path = <<>> THEN seg ELSE path \o <<".">> \o seg

ChildNames(p) == {NodeAt(SNIPPETS, p).items[i].k : i \in 1..ChildCount(p)}

\* After the numbers of a node: position 0, 1, 01, one past the last, an
\* unknown name, an empty segment, and the names of its children.
NumberedLines(p) ==
    {Extend(Label(p), s) :
        s \in {<<"0">>, <<"1">>, <<"0", "1">>, <<"x">>, <<>>, str(ChildCount(p) + 1)}
                  \cup ChildNames(p)}

\* After the names of a node: position 1, an unknown name, and the names
\* of its children.
NamedLines(p) ==
    {Extend(NamePath(p), s) : s \in {<<"1">>, <<"x">>} \cup ChildNames(p)}

PathLines ==
    UNION {{Label(p), NamePath(p)} \cup NumberedLines(p) \cup NamedLines(p) :
           p \in Positions}

PaddedLines ==
    {<<" ">> \o Label(p) \o <<" ">> : p \in Positions}
        \cup {<<"\t">> \o NamePath(p) \o <<" ">> : p \in Positions}

QuitLines ==
    {<<>>, <<"q">>, <<"Q">>, <<" ", "Q", "\t">>,
     <<"q", "u", "i", "t">>, <<"Q", "U", "I", "T">>, <<" ", "Q", "u", "i", "T", " ">>,
     <<"e", "x", "i", "t">>, <<"E", "X", "I", "T">>, <<"\t", "E", "x", "i", "t">>,
     <<" ", " ">>,
     <<"q", "q">>, <<"q", "u", "i", "t", "s">>, <<"e", "x", "i">>, <<"q", " ", "u", "i", "t">>}

Lines == ShortLines \cup PathLines \cup PaddedLines \cup QuitLines

\* The answers to the two [Y/n] prompts.
Answers ==
    {<<>>, <<"y">>, <<"Y">>, <<"y", "e", "s">>,
     <<"n">>, <<"N">>, <<" ", "n", " ">>,
     <<"n", "o">>, <<"N", "O">>, <<"N", "o", "\t">>,
     <<"n", "o", "p", "e">>, <<"n", " ", "o">>, <<"0">>}

-----------------------------------------------------------------------------
(* main *)

RuleWidth == 70

DashWidth == 60

Rule == Repeat(<<"=">>, RuleWidth)

Dashes == Repeat(<<"-">>, DashWidth)

QuitTokens == {<<"q">>, <<"q", "u", "i", "t">>, <<"e", "x", "i", "t">>, <<>>}

NoTokens == {<<"n">>, <<"n", "o">>}

\* The host: pyperclip with a clipboard behind it, no pyperclip module
\* (import pyperclip raises ImportError), or a pyperclip that finds no
\* copy mechanism (pyperclip.copy raises its own PyperclipException).
Hosts == {"clipboard", "no_module", "no_backend"}

\* What the try of lines 244-246 raises on the host.
CopyOutcome(h) ==
    IF h = "no_module" THEN "ImportError"
    ELSE IF h = "no_backend" THEN "PyperclipException"
    ELSE "none"

\* An except clause for IndexError alone.
ExceptIndexErrorOnly(e) == e = "IndexError"

\* The bare except of line 233 catches every exception.
ExceptAny(e) == TRUE

\* except ImportError, line 248.
ExceptImportError(e) == e = "ImportError"

\* except KeyboardInterrupt, line 259.
ExceptKeyboardInterrupt(e) == e = "KeyboardInterrupt"

NoCopy == [tried |-> FALSE, called |-> FALSE, text |-> <<>>]

\* What print_menu(SNIPPETS) and print() write before the prompt.
MenuOut == print_menu(SNIPPETS, 0, <<>>) \o <<<<>>>>

\* code.strip(): the text without its surrounding whitespace; a dict has
\* no strip (AttributeError).
Stripped(code) ==
    IF code.isdict
    THEN [ok |-> FALSE, text |-> <<>>, err |-> "AttributeError"]
    ELSE [ok |-> TRUE, text |-> strip(code.text), err |-> "none"]

\* An exception that leaves main: "\nBye." and a normal end when the
\* handler under __main__ catches it, a traceback otherwise.
Uncaught(e) == IF ExceptKeyboardInterrupt(e) THEN "bye" ELSE "traceback"

\* The status the process ends with: 1 after a traceback, 0 otherwise.
ExitStatus == IF pc = "traceback" THEN 1 ELSE 0

Running == pc \in {"menu", "copy", "another"}

Init ==
    /\ pc = "menu"
    /\ host \in Hosts
    /\ last = "start"
    /\ line = <<>>
    /\ choice = <<>>
    /\ snippet = NoNode
    /\ raised = "none"
    /\ out = <<Banner>> \o MenuOut
    /\ copy = NoCopy

\* One pass of the loop from the input of line 226 on, up to the next
\* input() or the end of the process.
MenuInput(l) ==
    /\ pc = "menu"
    /\ last' = "MenuInput"
    /\ line' = l
    /\ copy' = NoCopy
    /\ UNCHANGED host
    /\ LET c == strip(l)
       IN  /\ choice' = c
           /\ IF lower(c) \in QuitTokens
              THEN \* return
                   /\ pc' = "returned"
                   /\ raised' = "none"
                   /\ out' = <<>>
                   /\ snippet' = NoNode
              ELSE LET r == get_nested(SNIPPETS, c)
                   IN  IF ~r.ok
                       THEN /\ raised' = r.err
                            /\ snippet' = NoNode
                            /\ IF ExceptAny(r.err)
                               THEN \* print, continue: the loop prints the
                                    \* menu again
                                    /\ pc' = "menu"
                                    /\ out' = <<InvalidMsg>> \o MenuOut
                               ELSE /\ pc' = Uncaught(r.err)
                                    /\ out' = <<>>
                       ELSE /\ snippet' = r.node
                            /\ raised' = Stripped(r.node).err
                            /\ IF Stripped(r.node).ok
                               THEN /\ pc' = "copy"
                                    /\ out' = <<<<"\n">> \o Rule,
                                                Stripped(r.node).text,
                                                Rule \o <<"\n">>>>
                               ELSE \* code.strip() raises outside the try,
                                    \* after the first rule is printed
                                    /\ pc' = Uncaught(Stripped(r.node).err)
                                    /\ out' = <<<<"\n">> \o Rule>>

\* From the answer to "Copy to clipboard? [Y/n]" up to the next input()
\* or the end of the process.
CopyAnswer(l) ==
    /\ pc = "copy"
    /\ last' = "CopyAnswer"
    /\ line' = l
    /\ UNCHANGED <<host, choice, snippet>>
    /\ IF lower(strip(l)) \in NoTokens
       THEN /\ pc' = "another"
            /\ raised' = "none"
            /\ out' = <<>>
            /\ copy' = NoCopy
       ELSE \* try: import pyperclip; pyperclip.copy(code.strip())
            /\ raised' = CopyOutcome(host)
            /\ copy' = [tried |-> TRUE,
                        called |-> CopyOutcome(host) # "ImportError",
                        text |-> IF CopyOutcome(host) # "ImportError"
                                 THEN Stripped(snippet).text ELSE <<>>]
            /\ IF CopyOutcome(host) = "none"
               THEN /\ pc' = "another"
                    /\ out' = <<CopiedMsg>>
               ELSE IF ExceptImportError(CopyOutcome(host))
               THEN /\ pc' = "another"
                    /\ out' = <<InstallMsg>>
               ELSE /\ pc' = Uncaught(CopyOutcome(host))
                    /\ out' = <<>>

\* From the answer to "Another? [Y/n]" up to the next input() or the end.
AnotherAnswer(l) ==
    /\ pc = "another"
    /\ last' = "AnotherAnswer"
    /\ line' = l
    /\ raised' = "none"
    /\ copy' = NoCopy
    /\ UNCHANGED host
    /\ IF lower(strip(l)) \in NoTokens
       THEN \* break
            /\ pc' = "returned"
            /\ out' = <<>>
            /\ UNCHANGED <<choice, snippet>>
       ELSE \* the next pass binds choice and snippet anew before it
            \* reads them: they are kept unbound at the prompt
            /\ pc' = "menu"
            /\ out' = <<Dashes \o <<"\n">>>> \o MenuOut
            /\ choice' = <<>>
            /\ snippet' = NoNode

\* KeyboardInterrupt while an input() waits: it leaves main and is caught
\* under __main__, which prints "\nBye.".
Interrupt ==
    /\ Running
    /\ last' = "Interrupt"
    /\ raised' = "KeyboardInterrupt"
    /\ pc' = Uncaught("KeyboardInterrupt")
    /\ out' = <<ByeMsg>>
    /\ line' = <<>>
    /\ copy' = NoCopy
    /\ UNCHANGED <<host, choice, snippet>>

\* End of input while an input() waits: EOFError leaves main, and no
\* handler catches it.
EndOfInput ==
    /\ Running
    /\ last' = "EndOfInput"
    /\ raised' = "EOFError"
    /\ pc' = Uncaught("EOFError")
    /\ out' = <<>>
    /\ line' = <<>>
    /\ copy' = NoCopy
    /\ UNCHANGED <<host, choice, snippet>>

Next ==
    \/ \E l \in Lines : MenuInput(l)
    \/ \E l \in Answers : CopyAnswer(l)
    \/ \E l \in Answers : AnotherAnswer(l)
    \/ Interrupt
    \/ EndOfInput

Spec == Init /\ [][Next]_vars

-----------------------------------------------------------------------------
(* Properties of get_nested, read off the pass of the loop that resolved   *)
(* the choice of the state.                                                *)

\* The state follows a pass of the loop that called get_nested(SNIPPETS, choice).
Resolving == last = "MenuInput" /\ lower(choice) \notin QuitTokens

InteriorPositions == {p \in Positions : NodeAt(SNIPPETS, p).isdict}

LeafPositions == Positions \ InteriorPositions

\* choice is the numbers of an Interior node followed by the segment seg.
OutOfRangeAt(p, seg) == choice = Extend(Label(p), seg)

\* C1: at every Interior node reached by its numbers, a further numeric
\* segment of value 0 or child_count + 1 makes get_nested fail with an
\* index error, and no node is returned; so for "0" and str(child_count + 1)
\* at the root.
C1_OutOfRangeFails ==
    \A p \in InteriorPositions :
        \A seg \in {<<"0">>, str(ChildCount(p) + 1)} :
            (Resolving /\ OutOfRangeAt(p, seg))
                => (raised = "IndexError" /\ snippet = NoNode)

\* C2: a choice that resolves to an Interior node is an invalid selection:
\* nothing of it is printed or copied, the process does not end, and the
\* loop is back at the menu prompt.
C2_CategoryIsInvalidSelection ==
    (Resolving /\ get_nested(SNIPPETS, choice).ok
               /\ get_nested(SNIPPETS, choice).node.isdict)
        => (pc = "menu" /\ out = <<InvalidMsg>> \o MenuOut)

Prefixes(s) == {SubSeq(s, 1, i - 1) : i \in {j \in 1..Len(s) : s[j] = "."}}

\* C4: when a prefix of the choice resolves to a Leaf and a segment follows
\* it, get_nested fails, with the error of a str that is no container, and
\* returns no node.
C4_PastLeafFails ==
    (Resolving /\ \E q \in Prefixes(choice) :
                      /\ get_nested(SNIPPETS, q).ok
                      /\ ~get_nested(SNIPPETS, q).node.isdict)
        => /\ raised \in {"AttributeError", "TypeError"}
           /\ snippet = NoNode
           /\ pc = "menu"

C4_Witness ==
    /\ Resolving
    /\ choice = <<"1", ".", "1", ".", "1">>
    /\ raised = "AttributeError"
    /\ snippet = NoNode

\* C5: for every leaf, the path of its position numbers and the path of its
\* display names both resolve to that very leaf.
C5_RoundTrip ==
    \A p \in LeafPositions :
        (Resolving /\ choice \in {Label(p), NamePath(p)})
            => (snippet = NodeAt(SNIPPETS, p) /\ raised = "none")

C5_Witness ==
    /\ Resolving
    /\ choice = Name2 \o <<".">> \o Name2_2
    /\ snippet = StrNode(22, Text2_2)
    /\ pc = "copy"

-----------------------------------------------------------------------------
(* Properties of print_menu, read off the menu the process has printed     *)
(* when it waits at the menu prompt.                                       *)

\* The lines of print_menu in out: between what the pass printed first and
\* the empty print() before the prompt.
PrintedMenu == SubSeq(out, 2, Len(out) - 1)

\* A menu line without its indentation.
Unindented(ln) == lstrip(ln)

ParenOf(ln) == CHOOSE i \in 1..Len(ln) : ln[i] = ")" /\ \A j \in 1..(i - 1) : ln[j] # ")"

\* The numeric label of a menu line: what stands before its ")".
LineLabel(ln) == SubSeq(Unindented(ln), 1, ParenOf(Unindented(ln)) - 1)

\* What stands after ") ".
LineRest(ln) ==
    SubSeq(Unindented(ln), ParenOf(Unindented(ln)) + 2, Len(Unindented(ln)))

HasSlash(ln) == Len(LineRest(ln)) > 0 /\ LineRest(ln)[Len(LineRest(ln))] = "/"

\* The display name on a menu line.
LineName(ln) ==
    IF HasSlash(ln) THEN SubSeq(LineRest(ln), 1, Len(LineRest(ln)) - 1)
    ELSE LineRest(ln)

\* ln is the line of a child of the node at p: its label is the numbers of
\* p and one number more.
IsChildLine(ln, p) ==
    LET parts == split(LineLabel(ln))
    IN  /\ isdigit(parts[Len(parts)])
        /\ LineLabel(ln) = Extend(Label(p), parts[Len(parts)])

ChildLines(menu, p) ==
    LET Test(ln) == IsChildLine(ln, p) IN SelectSeq(menu, Test)

\* The key under which the dict at p holds its i-th value.
KeyAt(p, i) == NodeAt(SNIPPETS, p).items[i].k

\* C6: for every Interior node, the N-th child line of the menu names the
\* child that get_nested returns for the numeric segment N at that node, and
\* the label of every menu line is a path that get_nested resolves to the
\* node named on the line.
C6_MenuNumbersResolve ==
    pc = "menu" =>
        \A p \in InteriorPositions :
            LET lines == ChildLines(PrintedMenu, p)
                parent == NodeAt(SNIPPETS, p)
            IN  /\ Len(lines) = ChildCount(p)
                /\ \A n \in 1..Len(lines) :
                       LET atLevel == get_nested(parent, str(n))
                           byLabel == get_nested(SNIPPETS, LineLabel(lines[n]))
                       IN  /\ atLevel.ok
                           /\ byLabel.ok
                           /\ atLevel.node = byLabel.node
                           /\ \E i \in 1..ChildCount(p) :
                                  /\ KeyAt(p, i) = LineName(lines[n])
                                  /\ parent.items[i].v = atLevel.node

C6_Witness ==
    /\ pc = "menu"
    /\ last = "AnotherAnswer"
    /\ ChildLines(PrintedMenu, <<2>>)[2]
           = <<" ", " ", "2", ".", "2", ")", " ">> \o Name2_2
    /\ get_nested(SNIPPETS, <<"2", ".", "2">>).node = StrNode(22, Text2_2)

\* The number of lines print_menu writes for a node and what is below it.
RECURSIVE Size(_)
Sum(f, n) ==
    LET RECURSIVE S(_)
        S(i) == IF i = 0 THEN 0 ELSE f[i] + S(i - 1)
    IN  S(n)

Size(node) ==
    1 + Sum([i \in 1..Len(node.items) |-> Size(node.items[i].v)], Len(node.items))

\* The place of the line of the node at p in the menu: after the line of
\* its parent and after all that its elder siblings take.
RECURSIVE LineNo(_)
LineNo(p) ==
    LET up == SubSeq(p, 1, Len(p) - 1)
        i == p[Len(p)]
        parent == NodeAt(SNIPPETS, up)
    IN  (IF up = <<>> THEN 0 ELSE LineNo(up))
            + 1 + Sum([j \in 1..(i - 1) |-> Size(parent.items[j].v)], i - 1)

\* The line of the spec for the node at p: two spaces for each level of
\* depth, the numbers of the node, ") ", its name, and "/" for an Interior
\* node alone.
SpecLine(p) ==
    [i \in 1..(2 * (Len(p) - 1)) |-> " "]
        \o Label(p) \o <<")", " ">>
        \o KeyAt(SubSeq(p, 1, Len(p) - 1), p[Len(p)])
        \o (IF p \in InteriorPositions THEN <<"/">> ELSE <<>>)

\* C7: the menu lists the children of each node in insertion order, numbered
\* from 1; an Interior child has the line "<indent><prefix><i>) <name>/"
\* and is followed at once by the lines of its own children, one level
\* deeper, under the prefix "<prefix><i>."; a Leaf child has the line without
\* the slash and nothing below it; an empty Interior child takes one line.
C7_MenuLayout ==
    pc = "menu" =>
        /\ Len(PrintedMenu) = Size(SNIPPETS) - 1
        /\ \A p \in Positions \ {<<>>} : PrintedMenu[LineNo(p)] = SpecLine(p)
        /\ PrintedMenu[1] = <<"1", ")", " ">> \o Name1 \o <<"/">>
        /\ PrintedMenu[3] = <<" ", " ", "1", ".", "2", ")", " ">> \o Name1_2
        /\ PrintedMenu[Len(PrintedMenu) - 1] = <<"8", ")", " ">> \o Name8 \o <<"/">>
        /\ PrintedMenu[Len(PrintedMenu)] = <<"9", ")", " ">> \o Name9 \o <<"/">>

C7_Witness ==
    /\ pc = "menu"
    /\ last = "MenuInput"
    /\ Len(PrintedMenu) = 16
    /\ PrintedMenu[4] = <<"2", ")", " ">> \o Name2 \o <<"/">>
    /\ PrintedMenu[5] = <<" ", " ", "2", ".", "1", ")", " ">> \o Name2_1

-----------------------------------------------------------------------------
(* Properties of the session loop. *)

\* The line the last input() returned, trimmed and in lower case.
Answer == lower(strip(line))

\* C8: a line that, trimmed, is "q", "quit" or "exit" in any letter case, or
\* empty, ends the loop at the selection prompt without any resolution; an
\* interrupt can come at each of the prompts and ends it too; both ways the
\* process ends with status 0.
C8_QuitAndInterrupt ==
    /\ (last = "MenuInput"
          /\ \E t \in {<<"q">>, <<"q", "u", "i", "t">>, <<"e", "x", "i", "t">>, <<>>} :
                 /\ Len(strip(line)) = Len(t)
                 /\ \A i \in 1..Len(t) :
                        \/ strip(line)[i] = t[i]
                        \/ \E k \in 1..26 : /\ strip(line)[i] = UpperChars[k]
                                            /\ t[i] = LowerChars[k])
           => /\ pc = "returned"
              /\ ExitStatus = 0
              /\ raised = "none"
              /\ snippet = NoNode
              /\ out = <<>>
    /\ last = "Interrupt" => (pc = "bye" /\ ExitStatus = 0 /\ out = <<ByeMsg>>)
    /\ Running => ENABLED Interrupt

C8_Witness ==
    /\ last = "MenuInput"
    /\ line = <<" ", "Q", "u", "i", "T", " ">>
    /\ pc = "returned"
    /\ ExitStatus = 0

\* C9: when the copy is tried on a host without a working clipboard, the
\* pass prints a message that is not "Invalid selection.", the process does
\* not end, and it waits at the "Another?" prompt.
C9_ClipboardFailureIsSoft ==
    (last = "CopyAnswer" /\ copy.tried /\ host # "clipboard")
        => /\ pc = "another"
           /\ Running
           /\ Len(out) > 0
           /\ InvalidMsg \notin Range(out)

\* d is t without its leading and trailing whitespace, and nothing else
\* changed.
IsTrimOf(d, t) ==
    \E i \in 1..(Len(t) + 1) :
        \E j \in 0..Len(t) :
            /\ d = SubSeq(t, i, j)
            /\ \A k \in 1..(i - 1) : t[k] \in Whitespace
            /\ \A k \in (j + 1)..Len(t) : t[k] \in Whitespace
            /\ d # <<>> => (d[1] \notin Whitespace /\ d[Len(d)] \notin Whitespace)

\* The choice of the state is resolved to a Leaf.
LeafSelected ==
    /\ Resolving
    /\ get_nested(SNIPPETS, choice).ok
    /\ ~get_nested(SNIPPETS, choice).node.isdict

\* C10: a leaf selection shows the trimmed payload between the rules and
\* waits at the copy prompt; the answer to it tries the copy unless it is "n"
\* or "no" (trimmed, in lower case), hands the shown text to the clipboard,
\* and leads to the "Another?" prompt; the answer to that ends the session
\* if it is "n" or "no" and leads back to the menu prompt otherwise.
C10_LeafSelectionSequence ==
    /\ LeafSelected =>
           /\ pc = "copy"
           /\ Len(out) = 3
           /\ IsTrimOf(out[2], snippet.text)
    /\ pc = "copy" => LeafSelected
    /\ last = "CopyAnswer" =>
           /\ copy.tried <=> Answer \notin {<<"n">>, <<"n", "o">>}
           /\ copy.called => IsTrimOf(copy.text, snippet.text)
           /\ pc = "another"
    /\ pc = "another" => last = "CopyAnswer"
    /\ last = "AnotherAnswer" =>
           /\ pc = "returned" <=> Answer \in {<<"n">>, <<"n", "o">>}
           /\ pc \in {"returned", "menu"}

====
